---------------------------- MODULE Spec2Model ----------------------------
(***************************************************************************)
(* Model of the stargazing integration: the scoring engine                 *)
(* (src/stargazing/scoring.py), the notification policy                    *)
(* (StargazingData.check_and_notify in                                     *)
(* src/custom_components/stargazing/__init__.py, with the senders of       *)
(* src/stargazing/notifications.py), the periodic update loop              *)
(* (src/stargazing/sensor.py) and the event catalog                        *)
(* (src/custom_components/stargazing/astronomy_events.py).                 *)
(*                                                                         *)
(* Numbers: the code computes the score in floating point.  The model      *)
(* computes the same expression in exact rational arithmetic, as an        *)
(* integer numerator over the common denominator of the divisions the      *)
(* code makes, and truncates at the end as int() does.  On every snapshot   *)
(* and threshold set of this model the source, run in floating point,      *)
(* returns the same integer; elsewhere rounding can put the float result   *)
(* just under a whole number the exact sum reaches.                        *)
(***************************************************************************)
EXTENDS Integers, Sequences, FiniteSets, TLC

VARIABLES
    engine,                  \* StargazingScoringEngine: the three thresholds
    weather,                 \* hass.states.get(ASTROWEATHER_WEATHER): NoState or the attributes
    now,                     \* the wall clock read by datetime.now(), in seconds
    last_score,              \* StargazingData.last_score
    last_notification_type,  \* StargazingData.last_notification_type
    last_notification_time,  \* StargazingData.last_notification_time
    pc,                      \* position of each task that can run check_and_notify
    frame,                   \* the locals of each task's check_and_notify call
    outcome,                 \* what each task's latest evaluation did
    sends,                   \* number of delivery calls made so far
    call,                    \* the latest direct call of a scoring-engine function
    fetcher,                 \* AstronomyEventsFetcher: events and last_updated
    wall,                    \* datetime.now() as the event catalog reads it
    query,                   \* the latest call of a catalog query and what it returned
    pair,                    \* two runs of the policy that differ in minimum_score_notify
    run                      \* one run of the policy with the record of what it sent

vars == <<engine, weather, now, last_score, last_notification_type,
          last_notification_time, pc, frame, outcome, sends, call,
          fetcher, wall, query, pair, run>>

\* the variables outside the scoring engine and the notification policy
catalogVars == <<fetcher, wall, query, pair, run>>

None    == "None"   \* an unset last_notification_type
NoTime  == -1       \* an unset last_notification_time
NoScore == -1       \* an unset last_score

-----------------------------------------------------------------------------
(* Attribute values of the weather entity.  A numeric attribute is a       *)
(* number, absent from the dict, a string float() rejects, or None.        *)

Num(n)   == [k |-> "num",     v |-> n]
Missing  == [k |-> "missing", v |-> 0]
BadStr   == [k |-> "str",     v |-> 0]
NoneVal  == [k |-> "none",    v |-> 0]

(* moon_icon: a string (a sequence of characters), absent, or not a string. *)
Str(s)      == [k |-> "str",     s |-> s]
MissingStr  == [k |-> "missing", s |-> <<>>]
NoneStr     == [k |-> "none",    s |-> <<>>]

\* dict.get(key, 0) followed by float(): scoring.py lines 52-56
ParseFloat(x) ==
    CASE x.k = "num"     -> [exc |-> "none",       v |-> x.v]
      [] x.k = "missing" -> [exc |-> "none",       v |-> 0]
      [] x.k = "str"     -> [exc |-> "ValueError", v |-> 0]
      [] x.k = "none"    -> [exc |-> "TypeError",  v |-> 0]

\* str.lower() on one character
LowerChar(c) ==
    CASE c = "N" -> "n" [] c = "E" -> "e" [] c = "W" -> "w"
      [] c = "F" -> "f" [] c = "U" -> "u" [] c = "L" -> "l"
      [] c = "M" -> "m" [] c = "O" -> "o"
      [] OTHER -> c

Lower(s) == [i \in 1..Len(s) |-> LowerChar(s[i])]

\* the Python test  sub in s
Contains(sub, s) ==
    \E i \in 1..(Len(s) - Len(sub) + 1) : SubSeq(s, i, i + Len(sub) - 1) = sub

StrNew    == <<"n", "e", "w">>
StrNoMoon == <<"n", "o", "-", "m", "o", "o", "n">>
StrFull   == <<"f", "u", "l", "l">>

Uncapped(a, b) == b

Min(a, b) == IF a <= b THEN a ELSE b
Max(a, b) == IF a >= b THEN a ELSE b

-----------------------------------------------------------------------------
(* StargazingScoringEngine.calculate_score                                 *)

Returned(n) == [exc |-> "none", value |-> n]
Raised(e)   == [exc |-> e,      value |-> 0]

MoonPenaltyAlwaysFull(icon, moon_phase, D) == 10 * D

MoonPenaltyFullFirst(icon, moon_phase, D) ==
    IF Contains(StrFull, Lower(icon)) THEN 10 * D
    ELSE IF Contains(StrNew, Lower(icon)) \/ Contains(StrNoMoon, Lower(icon)) THEN 0
    ELSE moon_phase * 2 * (D \div 20)

\* scoring.py 97-105: the moon penalty as a numerator over the denominator D
MoonPenalty(icon, moon_phase, D) ==
    IF Contains(StrNew, Lower(icon)) \/ Contains(StrNoMoon, Lower(icon)) THEN 0
    ELSE IF Contains(StrFull, Lower(icon)) THEN 10 * D
    ELSE moon_phase * 2 * (D \div 20)

\* scoring.py 59-61: the mandatory threshold
HardGateBelowZero(cloudless, min_cloudless) == cloudless < 0

HardGate(cloudless, min_cloudless) == cloudless < min_cloudless

\* scoring.py 63-119, after the hard gate has been passed
ScoreAfterGate(e, cloudless, transparency, seeing, calm, moon_phase, moon_icon) ==
    LET max_cloudless_range == 100 - e.min_cloudless
        dc == IF max_cloudless_range > 0 THEN max_cloudless_range ELSE 1
        tAbove == transparency >= e.min_transparency
        dt == IF tAbove THEN 100 - e.min_transparency ELSE e.min_transparency
        sAbove == seeing >= e.min_seeing
        ds == IF sAbove THEN 100 - e.min_seeing ELSE e.min_seeing
    IN  IF dt = 0 \/ ds = 0 THEN Raised("ZeroDivisionError")
        ELSE IF moon_icon.k = "none" THEN Raised("AttributeError")
        ELSE
        LET D == dc * dt * ds * 20
            cPts == IF max_cloudless_range > 0
                    THEN Min(30 * D, (cloudless - e.min_cloudless) * 35 * (D \div dc))
                    ELSE 30 * D
            tPts == IF tAbove
                    THEN Min(25 * D, (transparency - e.min_transparency) * 28 * (D \div dt))
                    ELSE transparency * 10 * (D \div dt)
            sPts == IF sAbove
                    THEN Min(20 * D, (seeing - e.min_seeing) * 22 * (D \div ds))
                    ELSE seeing * 8 * (D \div ds)
            kPts == calm * 3 * (D \div 20)
            score == cPts + tPts + sPts + kPts
                       - MoonPenalty(moon_icon.s, moon_phase, D)
            final_score == Max(0, Min(100 * D, score))
        IN  Returned(final_score \div D)

calculate_score(e, a) ==
    LET cloudless    == ParseFloat(a.cloudless_percentage)
        transparency == ParseFloat(a.transparency_percentage)
        seeing       == ParseFloat(a.seeing_percentage)
        calm         == ParseFloat(a.calm_percentage)
        moon_phase   == ParseFloat(a.moon_phase)
        parsed       == <<cloudless, transparency, seeing, calm, moon_phase>>
    IN  IF \E i \in 1..5 : parsed[i].exc # "none"
        THEN Returned(0)       \* except (KeyError, ValueError, TypeError): return 0
        ELSE IF HardGate(cloudless.v, e.min_cloudless)
        THEN Returned(0)
        ELSE ScoreAfterGate(e, cloudless.v, transparency.v, seeing.v, calm.v,
                            moon_phase.v, a.moon_icon)

get_rating_strict(score) ==
    IF score > 90 THEN "EXCEPTIONAL"
    ELSE IF score > 80 THEN "AMAZING"
    ELSE IF score > 60 THEN "Good"
    ELSE "Poor"

\* StargazingScoringEngine.get_rating
get_rating(score) ==
    IF score >= 90 THEN "EXCEPTIONAL"
    ELSE IF score >= 80 THEN "AMAZING"
    ELSE IF score >= 60 THEN "Good"
    ELSE "Poor"

\* StargazingScoringEngine.get_score_breakdown parses the five numbers again,
\* outside any try: it raises where float() does.
BreakdownRaises(a) ==
    \E x \in {a.cloudless_percentage, a.transparency_percentage,
              a.seeing_percentage, a.calm_percentage, a.moon_phase} :
        ParseFloat(x).exc # "none"

-----------------------------------------------------------------------------
(* StargazingData                                                          *)

NoState == [present |-> FALSE]
\* hass.states.get gives None or an entity with a state string and attributes
Entity(st, a) == [present |-> TRUE, state |-> st, attributes |-> a]
State(a) == Entity("clear-night", a)

\* StargazingRatingSensor.async_update: the native value it leaves
async_update(w, e) ==
    IF ~w.present \/ w.state \in {"unknown", "unavailable"} THEN "Unknown"
    ELSE LET r == calculate_score(e, w.attributes)
         IN  IF r.exc # "none" THEN "Error" ELSE get_rating(r.value)

\* update_stargazing_data: the dict it returns and the last_score it leaves.
\* (The viewing window of lines 122-153 has its own try and changes neither.)
update_stargazing_data(w, e, old_last_score) ==
    IF ~w.present
    THEN [score |-> 0, rating |-> "Unknown", last_score |-> old_last_score]
    ELSE LET r == calculate_score(e, w.attributes)
         IN  IF r.exc # "none" \/ BreakdownRaises(w.attributes)
             THEN [score |-> 0, rating |-> "Error", last_score |-> old_last_score]
             ELSE [score |-> r.value, rating |-> get_rating(r.value),
                   last_score |-> r.value]

DebounceSeconds == 3600

DebouncedAnyTier(score, t) ==
    /\ last_notification_time # NoTime
    /\ t - last_notification_time < DebounceSeconds

DebouncedInclusive(score, t) ==
    /\ last_notification_time # NoTime
    /\ t - last_notification_time <= DebounceSeconds
    /\ last_notification_type = get_rating(score)

DebouncedHalfWindow(score, t) ==
    /\ last_notification_time # NoTime
    /\ 2 * (t - last_notification_time) < DebounceSeconds
    /\ last_notification_type = get_rating(score)

\* check_and_notify lines 183-188: "Already notified recently"
Debounced(score, t) ==
    /\ last_notification_time # NoTime
    /\ t - last_notification_time < DebounceSeconds
    /\ last_notification_type = get_rating(score)

AlertForGood(score) ==
    IF score >= 90 THEN "EXCEPTIONAL"
    ELSE IF score >= 60 THEN "AMAZING"
    ELSE None

AlertForLowestTier(score) ==
    IF score >= 80 THEN "AMAZING" ELSE None

AlertForAnyRating(score) == get_rating(score)

\* check_and_notify lines 191-203: which alert the score selects
AlertFor(score) ==
    IF score >= 90 THEN "EXCEPTIONAL"
    ELSE IF score >= 80 THEN "AMAZING"
    ELSE None

-----------------------------------------------------------------------------
(* datetime values of the event catalog.  d counts days from 2025-12-01;   *)
(* us is the microsecond field.                                            *)

Datetime(d, h, m, s, us) == [d |-> d, h |-> h, m |-> m, s |-> s, us |-> us]

SecondOfDay(t) == (t.h * 60 + t.m) * 60 + t.s

\* a < b on the time-of-day fields
EarlierInDay(a, b) ==
    \/ SecondOfDay(a) < SecondOfDay(b)
    \/ SecondOfDay(a) = SecondOfDay(b) /\ a.us < b.us

\* datetime.__lt__ and datetime.__le__
Earlier(a, b) == a.d < b.d \/ (a.d = b.d /\ EarlierInDay(a, b))
NotLater(a, b) == ~Earlier(b, a)

\* t + timedelta(days=n)
PlusDays(t, n) == [t EXCEPT !.d = @ + n]

DaysBetweenDates(a, b) == a.d - b.d

\* (a - b).days: timedelta normalises to whole days below and a non-negative rest
DaysBetween(a, b) == a.d - b.d - (IF EarlierInDay(a, b) THEN 1 ELSE 0)

\* target_date.replace(hour=0, minute=0, second=0): the microsecond stays
ReplaceHMS(t) == [t EXCEPT !.h = 0, !.m = 0, !.s = 0]

\* datetime.fromtimestamp(n), n in seconds from 2025-12-01 00:00 local time
fromtimestamp(n) ==
    Datetime(n \div 86400, (n % 86400) \div 3600, (n % 3600) \div 60, n % 60, 0)

-----------------------------------------------------------------------------
(* AstronomyEventsFetcher                                                  *)

Event(name, type, dt) == [name |-> name, type |-> type, datetime |-> dt]

\* _fetch_meteor_showers lines 71-93
meteor_events ==
    << Event("Geminid Meteor Shower",    "meteor_shower", Datetime(12, 2, 0, 0, 0)),
       Event("Ursid Meteor Shower",      "meteor_shower", Datetime(22, 2, 0, 0, 0)),
       Event("Quadrantid Meteor Shower", "meteor_shower", Datetime(34, 2, 0, 0, 0)) >>

\* _fetch_planet_events lines 115-136
planetary_events ==
    << Event("Jupiter at Opposition", "opposition",         Datetime(14, 0, 0, 0, 0)),
       Event("Saturn - Best Viewing", "favorable_position", Datetime(17, 19, 0, 0, 0)),
       Event("Venus Evening Star",    "visibility",         Datetime(19, 18, 30, 0, 0)) >>

\* lines 96 and 139: today <= e["datetime"] <= end_date
InWindow(e, today, days_ahead) ==
    /\ NotLater(today, e.datetime)
    /\ NotLater(e.datetime, PlusDays(today, days_ahead))

\* line 180: start_time <= datetime.now() + timedelta(days=days_ahead)
InLookahead(e, today, days_ahead) ==
    NotLater(e.datetime, PlusDays(today, days_ahead))

_fetch_meteor_showers(days_ahead, today) ==
    LET keep(e) == InWindow(e, today, days_ahead)
    IN  SelectSeq(meteor_events, keep)

_fetch_planet_events(days_ahead, today) ==
    LET keep(e) == InWindow(e, today, days_ahead)
    IN  SelectSeq(planetary_events, keep)

\* What the pass-prediction request gives: a RequestException, or a JSON
\* object with or without "passes".  A pass carries startUTC and endUTC, each
\* a number, absent, or a string.
RequestException == [kind |-> "RequestException", passes |-> <<>>]
WithoutPasses    == [kind |-> "json-no-passes",   passes |-> <<>>]
Payload(passes)  == [kind |-> "json",             passes |-> passes]

Pass(startUTC, endUTC) == [startUTC |-> startUTC, endUTC |-> endUTC]

\* lines 176-177 for one pass: pass_info[...] raises KeyError on an absent
\* key, datetime.fromtimestamp raises TypeError on a string
ParsePass(p) ==
    IF p.startUTC.k = "missing" THEN "KeyError"
    ELSE IF p.startUTC.k # "num" THEN "TypeError"
    ELSE IF p.endUTC.k = "missing" THEN "KeyError"
    ELSE IF p.endUTC.k # "num" THEN "TypeError"
    ELSE "none"

IssEvent(p) ==
    Event("ISS Pass - Bright Satellite", "iss_pass", fromtimestamp(p.startUTC.v))

\* the loop of lines 173-199 over passes, in order; a TypeError leaves the loop
RECURSIVE IssLoop(_, _, _, _)
IssLoop(passes, days_ahead, today, events) ==
    IF passes = <<>> THEN [exc |-> "none", events |-> events]
    ELSE LET p == Head(passes)
             x == ParsePass(p)
         IN  IF x = "TypeError" THEN [exc |-> x, events |-> events]
             ELSE IF x = "KeyError"
             THEN IssLoop(Tail(passes), days_ahead, today, events)
             ELSE IF InLookahead(IssEvent(p), today, days_ahead)
             THEN IssLoop(Tail(passes), days_ahead, today,
                          Append(events, IssEvent(p)))
             ELSE IssLoop(Tail(passes), days_ahead, today, events)

\* the try body of _fetch_iss_passes: what it returns or raises
IssBody(response, days_ahead, today) ==
    IF response.kind = "RequestException"
    THEN [exc |-> "RequestException", events |-> <<>>]
    ELSE IssLoop(response.passes, days_ahead, today, <<>>)

IssUncaught(response, days_ahead, today) ==
    IssBody(response, days_ahead, today)

\* _fetch_iss_passes: both except clauses return []
_fetch_iss_passes(response, days_ahead, today) ==
    LET r == IssBody(response, days_ahead, today)
    IN  IF r.exc # "none" THEN [exc |-> "none", events |-> <<>>] ELSE r

FetchUnsorted(events) == events

RECURSIVE SortByDatetime(_)
\* list.sort(key=datetime): ascending, equal keys keep their order
SortByDatetime(events) ==
    IF events = <<>> THEN <<>>
    ELSE LET n      == Len(events)
             e      == events[n]
             sorted == SortByDatetime(SubSeq(events, 1, n - 1))
             k      == Cardinality({i \in 1..(n - 1) :
                                      NotLater(sorted[i].datetime, e.datetime)})
         IN  SubSeq(sorted, 1, k) \o <<e>> \o SubSeq(sorted, k + 1, n - 1)

\* __init__ lines 26-27; last_updated is <<>> for None, <<t>> once set
NewFetcher == [events |-> <<>>, last_updated |-> <<>>]

FetchMerging(f, response, days_ahead, today) ==
    [exc |-> "none",
     fetcher |-> [events |-> SortByDatetime(
                     f.events
                     \o _fetch_meteor_showers(days_ahead, today)
                     \o _fetch_planet_events(days_ahead, today)
                     \o _fetch_iss_passes(response, days_ahead, today).events),
                  last_updated |-> <<today>>]]

\* fetch_events: what it raises and the fetcher it leaves
fetch_events(f, response, days_ahead, today) ==
    LET iss == _fetch_iss_passes(response, days_ahead, today)
    IN  IF iss.exc # "none" THEN [exc |-> iss.exc, fetcher |-> f]
        ELSE [exc |-> "none",
              fetcher |-> [events |-> SortByDatetime(
                              _fetch_meteor_showers(days_ahead, today)
                              \o _fetch_planet_events(days_ahead, today)
                              \o iss.events),
                           last_updated |-> <<today>>]]

Upcoming(events, today) ==
    LET ahead(e) == NotLater(today, e.datetime)
    IN  SelectSeq(events, ahead)

\* get_next_event: an event, or None
get_next_event(f, today) ==
    IF f.events = <<>> THEN <<>>
    ELSE LET upcoming == Upcoming(f.events, today)
         IN  IF upcoming # <<>> THEN <<upcoming[1]>> ELSE <<>>

\* get_events_for_date
get_events_for_date(f, target_date) ==
    LET target_start == ReplaceHMS(target_date)
        target_end   == PlusDays(target_start, 1)
        on(e) == /\ NotLater(target_start, e.datetime)
                 /\ Earlier(e.datetime, target_end)
    IN  SelectSeq(f.events, on)

\* lines 269-274: the relative-time words of one event
When(days_until) ==
    IF days_until = 0 THEN [text |-> "Tonight", n |-> 0]
    ELSE IF days_until = 1 THEN [text |-> "Tomorrow", n |-> 1]
    ELSE [text |-> "in N days", n |-> days_until]

\* upcoming[:max_events] for max_events >= 0
Slice(s, n) == SubSeq(s, 1, Min(n, Len(s)))

\* format_events_summary: the heading and one line per rendered event
format_events_summary(f, max_events, today) ==
    IF f.events = <<>>
    THEN [text |-> "No major events scheduled", lines |-> <<>>]
    ELSE LET upcoming == Slice(Upcoming(f.events, today), max_events)
         IN  IF upcoming = <<>>
             THEN [text |-> "No upcoming events", lines |-> <<>>]
             ELSE [text |-> "Upcoming Events:",
                   lines |-> [i \in 1..Len(upcoming) |->
                       [name |-> upcoming[i].name,
                        when |-> When(DaysBetween(upcoming[i].datetime, today))]]]

-----------------------------------------------------------------------------
(* One StargazingData object as a value: its configuration and its state   *)
(* tracking, with check_and_notify run from entry to return.               *)

\* __init__ lines 68 and 83-86; alert and score are those of the latest evaluation
NewData(minimum_score_notify) ==
    [config |-> [minimum_score_notify |-> minimum_score_notify],
     last_score |-> NoScore,
     last_notification_type |-> None,
     last_notification_time |-> NoTime,
     alert |-> None,
     score |-> NoScore]

\* lines 183-188 on the object d
DebouncedIn(d, score, t) ==
    /\ d.last_notification_time # NoTime
    /\ t - d.last_notification_time < DebounceSeconds
    /\ d.last_notification_type = get_rating(score)

AlertFromConfig(config, score) ==
    IF score >= 90 THEN "EXCEPTIONAL"
    ELSE IF score >= config.minimum_score_notify THEN "AMAZING"
    ELSE None

\* lines 191-203 on the object's configuration: self.config is not read
AlertIn(config, score) == AlertFor(score)

\* lines 179-203 on the object d once the snapshot data has been read
EvaluationOf(d, data, t) ==
    LET score == data.score
        alert == IF DebouncedIn(d, score, t) THEN None
                 ELSE AlertIn(d.config, score)
    IN  [d EXCEPT !.last_score = data.last_score,
                  !.score = score,
                  !.alert = alert,
                  !.last_notification_type = IF alert # None THEN alert ELSE @,
                  !.last_notification_time = IF alert # None THEN t ELSE @]

\* check_and_notify on the object d, its delivery call returned
Evaluation(d, w, e, t) ==
    EvaluationOf(d, update_stargazing_data(w, e, d.last_score), t)

\* lines 73-76 of the loop once its two snapshots have been read: first by
\* the loop's own update, second by the update inside check_and_notify
LoopIterationOf(d, first, second, t) ==
    LET ls    == first.last_score
        score == IF ls = NoScore THEN 0 ELSE ls
    IN  IF score >= 80
        THEN EvaluationOf([d EXCEPT !.last_score = ls], second, t)
        ELSE [d EXCEPT !.last_score = ls, !.score = score, !.alert = None]

\* one iteration of _setup_update_loop on the object d
LoopIteration(d, w, e, t) ==
    LET first == update_stargazing_data(w, e, d.last_score)
    IN  LoopIterationOf(d, first,
                        update_stargazing_data(w, e, first.last_score), t)

-----------------------------------------------------------------------------
(* StargazingNotificationService: the senders outside the tiers.  ok is    *)
(* whether hass.services.async_call returns; each gives the number of      *)
(* delivery calls it makes and the bool it returns.                        *)

SendOnceIfNoneRecorded(ok) ==
    [attempts |-> IF last_notification_time = NoTime THEN 1 ELSE 0,
     returned |-> ok /\ last_notification_time = NoTime]

\* send_test_notification
send_test_notification(ok) == [attempts |-> 1, returned |-> ok]

\* send_poor_conditions_info
send_poor_conditions_info(ok) == [attempts |-> 1, returned |-> ok]

-----------------------------------------------------------------------------
(* The inputs of the model                                                 *)

MaxTime  == 4600    \* the clock stops here
MaxSends == 3       \* delivery calls made in one run

Procs == {"loop", "service"}   \* _setup_update_loop and handle_check_now

ClockValues == {t \in {0, 1000, 3599, 3600, 4600} : t <= MaxTime} \cup {MaxTime}

IconNew     == Str(<<"m", "o", "o", "n", "-", "n", "e", "w">>)
IconFullUp  == Str(<<"M", "O", "O", "N", "-", "F", "U", "L", "L">>)
IconWaxing  == Str(<<"m", "o", "o", "n", "-", "w", "a", "x">>)
IconNewFull == Str(<<"N", "e", "w", "-", "f", "u", "l", "l">>)

Attributes(c, t, s, k, mp, icon) ==
    [cloudless_percentage |-> c, transparency_percentage |-> t,
     seeing_percentage |-> s, calm_percentage |-> k,
     moon_phase |-> mp, moon_icon |-> icon]

DefaultEngine == [min_cloudless |-> 95, min_transparency |-> 70, min_seeing |-> 65]

\* Thresholds the configuration form accepts: each of 0..100 (config_flow.py 111-143)
Engines ==
    { DefaultEngine,
      [min_cloudless |-> 0,   min_transparency |-> 0,   min_seeing |-> 0],
      [min_cloudless |-> 100, min_transparency |-> 100, min_seeing |-> 100],
      [min_cloudless |-> 95,  min_transparency |-> 100, min_seeing |-> 65],
      [min_cloudless |-> 0,   min_transparency |-> 70,  min_seeing |-> 100] }

\* Snapshots for the scoring engine alone
AllAttributes ==
    { Attributes(c, t, s, k, mp, icon) :
        c    \in {Num(0), Num(70), Num(98), Num(100), Missing, BadStr},
        t    \in {Num(0), Num(50), Num(85), Num(100), Missing, NoneVal},
        s    \in {Num(0), Num(75), Num(100), BadStr},
        k    \in {Num(0), Num(90), Num(100), Missing},
        mp   \in {Num(0), Num(50), Num(100)},
        icon \in {IconNew, IconFullUp, IconWaxing, IconNewFull, MissingStr, NoneStr} }

\* Provider states for the notification policy, under the default thresholds:
\* absent, scores 90, 85, 79 and 54, and a snapshot float() rejects.
WeatherStates ==
    { NoState,
      State(Attributes(Num(100), Num(100), Num(100), Num(100), Num(0),  IconNew)),
      State(Attributes(Num(100), Num(100), Num(100), Num(100), Num(50), IconWaxing)),
      State(Attributes(Num(100), Num(100), Num(100), Num(60),  Num(50), IconWaxing)),
      State(Attributes(Num(98),  Num(85),  Num(75),  Num(90),  Num(0),  IconNew)),
      State(Attributes(BadStr,   Num(100), Num(100), Num(100), Num(0),  IconNew)) }

NoCall  == [fn |-> "none", exc |-> "none", value |-> 0, rating |-> None]
NoFrame == [score |-> 0, now |-> 0]

\* The event catalog: the clock it reads, the lookaheads it is refreshed with,
\* the pass-prediction responses, and the arguments of its queries.
MaxEvents == 4      \* the largest max_events a summary is asked for

CatalogClock ==
    { Datetime(11, 20, 0, 0, 0),        \* before every static event
      Datetime(12, 2, 0, 0, 0),         \* the Geminid peak to the microsecond
      Datetime(13, 23, 59, 59, 500000),
      Datetime(14, 10, 0, 0, 500000),
      Datetime(18, 18, 30, 0, 0),       \* one day before Venus Evening Star
      Datetime(35, 0, 0, 0, 0) }        \* after every static event

FirstClock == Datetime(11, 20, 0, 0, 0)

Lookaheads == {1, 30}                   \* days_ahead; fetch_events defaults to 30

PastPass    == Pass(Num(1018800), Num(1019100))  \* 12 Dec 19:00, before every clock value
SoonPass    == Pass(Num(1229400), Num(1229700))  \* 15 Dec 05:30
FarPass     == Pass(Num(5184000), Num(5184300))  \* 30 Jan
NoStartPass == Pass(Missing,      Num(1229700))
NoEndPass   == Pass(Num(1229400), Missing)
StrPass     == Pass(BadStr,       Num(1229700))

PassKinds == {PastPass, SoonPass, FarPass, NoStartPass, NoEndPass, StrPass}

IssResponses ==
    {RequestException, WithoutPasses, Payload(<<>>)}
        \cup {Payload(<<p>>) : p \in PassKinds}
        \cup { Payload(<<SoonPass, PastPass>>), Payload(<<SoonPass, SoonPass>>),
               Payload(<<NoStartPass, SoonPass>>), Payload(<<SoonPass, StrPass>>),
               Payload(<<FarPass, SoonPass>>) }

TargetDates ==
    { Datetime(12, 2, 0, 0, 0),
      Datetime(13, 12, 0, 0, 500000),
      Datetime(14, 0, 0, 0, 0),
      Datetime(14, 10, 0, 0, 500000),
      Datetime(14, 23, 59, 59, 0),
      Datetime(17, 19, 0, 0, 0) }

NoQuery == [fn |-> "none"]
NoPair  == <<>>
NoRun   == <<>>

\* the catalog before its first refresh, and no paired run
CatalogIdle ==
    /\ fetcher = NewFetcher
    /\ wall = FirstClock
    /\ query = NoQuery
    /\ pair = NoPair
    /\ run = NoRun

-----------------------------------------------------------------------------
(* The notification policy and its callers                                 *)

Init ==
    /\ engine = DefaultEngine
    /\ weather \in WeatherStates
    /\ now = 0
    /\ last_score = NoScore
    /\ last_notification_type = None
    /\ last_notification_time = NoTime
    /\ pc = [p \in Procs |-> "idle"]
    /\ frame = [p \in Procs |-> NoFrame]
    /\ outcome = [p \in Procs |-> "none"]
    /\ sends = 0
    /\ call = NoCall
    /\ CatalogIdle

\* StargazingData.check_and_notify, from its entry to its return or to the await
\* of the delivery call.  ls is last_score as the caller left it.
check_and_notify(p, ls) ==
    LET data  == update_stargazing_data(weather, engine, ls)
        score == data.score
    IN  /\ last_score' = data.last_score
        /\ IF Debounced(score, now)
           THEN /\ outcome' = [outcome EXCEPT ![p] = "suppressed"]
                /\ UNCHANGED <<pc, frame, sends>>
           ELSE IF AlertFor(score) # None
           THEN /\ sends < MaxSends
                /\ sends' = sends + 1
                /\ pc' = [pc EXCEPT ![p] = "send"]
                /\ frame' = [frame EXCEPT ![p] = [score |-> score, now |-> now]]
                /\ outcome' = [outcome EXCEPT ![p] = "sending"]
           ELSE /\ outcome' = [outcome EXCEPT ![p] = "nothing"]
                /\ UNCHANGED <<pc, frame, sends>>
        /\ UNCHANGED <<engine, weather, now, last_notification_type,
                       last_notification_time, call,
                   catalogVars>>

\* handle_check_now: the check_conditions_now service
CheckNow ==
    /\ pc["service"] = "idle"
    /\ check_and_notify("service", last_score)

\* one iteration of _setup_update_loop, up to its sleep or to the await of the
\* delivery call inside check_and_notify
LoopTick ==
    /\ pc["loop"] = "idle"
    /\ LET ls    == update_stargazing_data(weather, engine, last_score).last_score
           score == IF ls = NoScore THEN 0 ELSE ls
       IN  IF score >= 80
           THEN check_and_notify("loop", ls)
           ELSE /\ last_score' = ls
                /\ outcome' = [outcome EXCEPT !["loop"] = "skipped"]
                /\ UNCHANGED <<engine, weather, now, last_notification_type,
                               last_notification_time, pc, frame, sends, call,
                   catalogVars>>

\* The delivery call returns: send_exceptional_alert / send_amazing_conditions_alert
\* give True, or False after catching the failure; check_and_notify lines
\* 195-196 and 202-203 then run.
SendReturn(p) ==
    /\ pc[p] = "send"
    /\ \E ok \in BOOLEAN :
         outcome' = [outcome EXCEPT ![p] = IF ok THEN "sent" ELSE "failed"]
    /\ last_notification_type' = AlertFor(frame[p].score)
    /\ last_notification_time' = frame[p].now
    /\ pc' = [pc EXCEPT ![p] = "idle"]
    /\ frame' = [frame EXCEPT ![p] = NoFrame]
    /\ UNCHANGED <<engine, weather, now, last_score, sends, call,
                   catalogVars>>

\* The weather provider publishes another state
SetWeather ==
    /\ \E w \in WeatherStates : w # weather /\ weather' = w
    /\ UNCHANGED <<engine, now, last_score, last_notification_type,
                   last_notification_time, pc, frame, outcome, sends, call,
                   catalogVars>>

\* Time passes
Advance ==
    /\ \E t \in ClockValues : t > now /\ now' = t
    /\ UNCHANGED <<engine, weather, last_score, last_notification_type,
                   last_notification_time, pc, frame, outcome, sends, call,
                   catalogVars>>

Next ==
    \/ CheckNow
    \/ LoopTick
    \/ \E p \in Procs : SendReturn(p)
    \/ SetWeather
    \/ Advance

Spec == Init /\ [][Next]_vars

-----------------------------------------------------------------------------
(* The scoring engine called directly                                      *)

InitScore ==
    /\ engine \in Engines
    /\ weather \in {State(a) : a \in AllAttributes}
    /\ now = 0
    /\ last_score = NoScore
    /\ last_notification_type = None
    /\ last_notification_time = NoTime
    /\ pc = [p \in Procs |-> "idle"]
    /\ frame = [p \in Procs |-> NoFrame]
    /\ outcome = [p \in Procs |-> "none"]
    /\ sends = 0
    /\ call = NoCall
    /\ CatalogIdle

CallCalculateScore ==
    /\ call.fn = "none"
    /\ LET r == calculate_score(engine, weather.attributes)
       IN  call' = [fn |-> "calculate_score", exc |-> r.exc, value |-> r.value,
                    rating |-> None]
    /\ UNCHANGED <<engine, weather, now, last_score, last_notification_type,
                   last_notification_time, pc, frame, outcome, sends,
                   catalogVars>>

CallGetRating ==
    /\ call.fn \in {"calculate_score", "score"}
    /\ call.exc = "none"
    /\ call' = [call EXCEPT !.fn = "get_rating", !.rating = get_rating(call.value)]
    /\ UNCHANGED <<engine, weather, now, last_score, last_notification_type,
                   last_notification_time, pc, frame, outcome, sends,
                   catalogVars>>

NextScore == CallCalculateScore \/ CallGetRating

SpecScore == InitScore /\ [][NextScore]_vars

MaxScore == 100

InitRating ==
    /\ engine = DefaultEngine
    /\ weather = NoState
    /\ now = 0
    /\ last_score = NoScore
    /\ last_notification_type = None
    /\ last_notification_time = NoTime
    /\ pc = [p \in Procs |-> "idle"]
    /\ frame = [p \in Procs |-> NoFrame]
    /\ outcome = [p \in Procs |-> "none"]
    /\ sends = 0
    /\ \E s \in 0..MaxScore :
         call = [fn |-> "score", exc |-> "none", value |-> s, rating |-> None]
    /\ CatalogIdle

NextRating == CallGetRating

SpecRating == InitRating /\ [][NextRating]_vars

-----------------------------------------------------------------------------
(* The event catalog and its callers                                       *)

policyVars == <<engine, weather, now, last_score, last_notification_type,
                last_notification_time, pc, frame, outcome, sends, call>>

InitCatalog ==
    /\ engine = DefaultEngine
    /\ weather = NoState
    /\ now = 0
    /\ last_score = NoScore
    /\ last_notification_type = None
    /\ last_notification_time = NoTime
    /\ pc = [p \in Procs |-> "idle"]
    /\ frame = [p \in Procs |-> NoFrame]
    /\ outcome = [p \in Procs |-> "none"]
    /\ sends = 0
    /\ call = NoCall
    /\ CatalogIdle

\* handle_refresh_events and the set-up calls: fetch_events returns or raises
FetchEvents ==
    \E days_ahead \in Lookaheads, response \in IssResponses :
        LET r == fetch_events(fetcher, response, days_ahead, wall)
        IN  /\ fetcher' = r.fetcher
            /\ query' = [fn |-> "fetch_events", at |-> wall,
                         days_ahead |-> days_ahead, response |-> response,
                         held |-> Len(fetcher.events), exc |-> r.exc]
            /\ UNCHANGED <<wall, pair, run, policyVars>>

GetNextEvent ==
    /\ query' = [fn |-> "get_next_event", at |-> wall,
                 result |-> get_next_event(fetcher, wall)]
    /\ UNCHANGED <<fetcher, wall, pair, run, policyVars>>

GetEventsForDate ==
    \E target_date \in TargetDates :
        /\ query' = [fn |-> "get_events_for_date", at |-> wall,
                     target_date |-> target_date,
                     result |-> get_events_for_date(fetcher, target_date)]
        /\ UNCHANGED <<fetcher, wall, pair, run, policyVars>>

FormatEventsSummary ==
    \E max_events \in 0..MaxEvents :
        /\ query' = [fn |-> "format_events_summary", at |-> wall,
                     max_events |-> max_events,
                     result |-> format_events_summary(fetcher, max_events, wall)]
        /\ UNCHANGED <<fetcher, wall, pair, run, policyVars>>

\* Time passes for the catalog
Tick ==
    /\ \E t \in CatalogClock : Earlier(wall, t) /\ wall' = t
    /\ UNCHANGED <<fetcher, query, pair, run, policyVars>>

NextCatalog ==
    \/ FetchEvents
    \/ GetNextEvent
    \/ GetEventsForDate
    \/ FormatEventsSummary
    \/ Tick

SpecCatalog == InitCatalog /\ [][NextCatalog]_vars

-----------------------------------------------------------------------------
(* Properties of the event catalog (specification SpecCatalog)             *)

Range(s) == {s[i] : i \in 1..Len(s)}

Count(e, s) == Cardinality({i \in 1..Len(s) : s[i] = e})

\* a and b hold the same events, each as often
SameEvents(a, b) ==
    \A e \in Range(a) \cup Range(b) : Count(e, a) = Count(e, b)

Ascending(events) ==
    \A i \in 1..(Len(events) - 1) :
        NotLater(events[i].datetime, events[i + 1].datetime)

\* the latest catalog call was a refresh
Refreshed == query.fn = "fetch_events"

\* the pass source of the latest refresh failed inside its try
PassSourceFailed ==
    /\ Refreshed
    /\ IssBody(query.response, query.days_ahead, query.at).exc # "none"

\* what the two static sources returned to the latest refresh
StaticReturned ==
    _fetch_meteor_showers(query.days_ahead, query.at)
        \o _fetch_planet_events(query.days_ahead, query.at)

\* C11: when one event source fails during fetch_events and the others return
\* events, fetch_events propagates no exception and the catalog holds exactly
\* the events of the sources that did not fail, ascending by timestamp.
C11_PartialFailureTolerant ==
    PassSourceFailed =>
        /\ query.exc = "none"
        /\ SameEvents(fetcher.events, StaticReturned)
        /\ Ascending(fetcher.events)

C11_Witness ==
    /\ PassSourceFailed
    /\ query.response.kind = "json"
    /\ Len(StaticReturned) >= 2
    /\ Len(fetcher.events) >= 2

\* C12: after fetch_events(days_ahead) run at time now, every event of the
\* catalog, from every source, has now <= timestamp <= now + days_ahead days.
C12_OnlyInWindowEvents ==
    Refreshed =>
        \A e \in Range(fetcher.events) :
            /\ NotLater(query.at, e.datetime)
            /\ NotLater(e.datetime, PlusDays(query.at, query.days_ahead))


\* the catalog positions whose event is at or after the time of the query
UpcomingAt == {i \in 1..Len(fetcher.events) :
                 NotLater(query.at, fetcher.events[i].datetime)}

\* C13: get_next_event returns the event with the smallest timestamp among the
\* catalog's events whose timestamp is >= now, and None when the catalog is
\* empty or holds no such event, after any refreshes and any passing of time.
C13_NextEventIsEarliestUpcoming ==
    query.fn = "get_next_event" =>
        IF UpcomingAt = {}
        THEN query.result = <<>>
        ELSE /\ query.result # <<>>
             /\ \E i \in UpcomingAt : fetcher.events[i] = query.result[1]
             /\ \A i \in UpcomingAt :
                  NotLater(query.result[1].datetime, fetcher.events[i].datetime)

\* a query after time has passed since the refresh, with events both behind
\* and ahead of now, whose answer is not the head of the catalog
C13_Witness ==
    /\ query.fn = "get_next_event"
    /\ fetcher.last_updated # <<>>
    /\ Earlier(fetcher.last_updated[1], query.at)
    /\ query.result # <<>>
    /\ query.result[1] # fetcher.events[1]
    /\ Cardinality(UpcomingAt) >= 2

\* midnight at the start of the day of t
Midnight(t) == Datetime(t.d, 0, 0, 0, 0)

OnDayOf(e, t) ==
    /\ NotLater(Midnight(t), e.datetime)
    /\ Earlier(e.datetime, PlusDays(Midnight(t), 1))

\* C14: get_events_for_date(d) returns exactly the catalog events whose
\* timestamp lies in [midnight at the start of d's day, that midnight + 1 day),
\* whatever hour, minute, second and sub-second part d carries.
C14_EventsOfTheDay ==
    query.fn = "get_events_for_date" =>
        LET on(e) == OnDayOf(e, query.target_date)
        IN  query.result = SelectSeq(fetcher.events, on)

\* what the three sources return to the refresh q records
Gathered(q) ==
    _fetch_meteor_showers(q.days_ahead, q.at)
        \o _fetch_planet_events(q.days_ahead, q.at)
        \o _fetch_iss_passes(q.response, q.days_ahead, q.at).events

\* a step that is a call of fetch_events
RefreshStep == query' # query /\ query'.fn = "fetch_events"

\* C19: after fetch_events completes the catalog is exactly the events gathered
\* by that call; an event of an earlier refresh remains only if this call
\* produced it again, and nothing remains when every source returns nothing.
C19_CatalogWhollyReplaced ==
    [][RefreshStep =>
         /\ SameEvents(fetcher'.events, Gathered(query'))
         /\ \A e \in Range(fetcher.events) \ Range(Gathered(query')) :
              e \notin Range(fetcher'.events)
         /\ Gathered(query') = <<>> => fetcher'.events = <<>>]_vars

\* a refresh that found a catalog with events and left it empty
C19_Witness ==
    /\ Refreshed
    /\ query.held > 0
    /\ Gathered(query) = <<>>
    /\ fetcher.events = <<>>

\* the whole days from t to the event e at or after t
WholeDaysAway(e, t) ==
    CHOOSE n \in 0..(e.datetime.d - t.d) :
        /\ NotLater(PlusDays(t, n), e.datetime)
        /\ Earlier(e.datetime, PlusDays(t, n + 1))

RelativeTime(n) ==
    IF n = 0 THEN "Tonight" ELSE IF n = 1 THEN "Tomorrow" ELSE "in N days"

\* the catalog events at or after the time of the query, in catalog order
UpcomingEvents ==
    LET ahead(e) == NotLater(query.at, e.datetime)
    IN  SelectSeq(fetcher.events, ahead)

\* C20: format_events_summary(max_n) renders at most max_n events, the first
\* max_n catalog events with timestamp >= now in order, each labelled
\* "Tonight" at 0 whole days away, "Tomorrow" at 1 and "in N days" otherwise;
\* it gives a no-events text for an empty catalog or no upcoming event.
C20_SummaryOfUpcoming ==
    query.fn = "format_events_summary" =>
        LET r == query.result
        IN  /\ Len(r.lines) <= query.max_events
            /\ Len(r.lines) = Min(query.max_events, Len(UpcomingEvents))
            /\ \A i \in 1..Len(r.lines) :
                 LET n == WholeDaysAway(UpcomingEvents[i], query.at)
                 IN  /\ r.lines[i].name = UpcomingEvents[i].name
                     /\ r.lines[i].when.text = RelativeTime(n)
                     /\ r.lines[i].when.n = n
            /\ (fetcher.events = <<>> \/ UpcomingEvents = <<>>) =>
                 /\ r.lines = <<>>
                 /\ r.text \in {"No major events scheduled", "No upcoming events"}
            /\ r.lines # <<>> => r.text = "Upcoming Events:"

\* a summary cut short by max_events that shows all three kinds of label
C20_Witness ==
    /\ query.fn = "format_events_summary"
    /\ Len(UpcomingEvents) > query.max_events
    /\ \A w \in {"Tonight", "Tomorrow", "in N days"} :
         \E i \in 1..Len(query.result.lines) : query.result.lines[i].when.text = w

-----------------------------------------------------------------------------
(* Properties of the notification policy (specification Spec)              *)

\* the score a check_and_notify evaluation started in this state works with
CurrentScore == update_stargazing_data(weather, engine, last_score).score

\* a step in which a task enters check_and_notify
Evaluates(p) ==
    IF p = "service" THEN CheckNow
    ELSE LoopTick /\ outcome'["loop"] # "skipped"

NotificationStateUnchanged ==
    UNCHANGED <<last_notification_type, last_notification_time>>

\* C1: when the delivery call of an exceptional or amazing alert fails,
\* last_notification_type and last_notification_time keep their values.
C1_FailedSendLeavesState ==
    [][\A p \in Procs :
         (pc[p] = "send" /\ pc'[p] = "idle" /\ outcome'[p] = "failed")
            => NotificationStateUnchanged]_vars

SameTierRecently ==
    /\ last_notification_time # NoTime
    /\ now - last_notification_time < 3600
    /\ get_rating(CurrentScore) = last_notification_type

\* C2: an evaluation whose rating equals last_notification_type, fewer than
\* 3600 seconds after last_notification_time, sends nothing and leaves
\* last_notification_type and last_notification_time alone.
C2_DebounceSuppression ==
    [][\A p \in Procs :
         (SameTierRecently /\ Evaluates(p))
            => (sends' = sends /\ pc'[p] = "idle" /\ NotificationStateUnchanged)]_vars

\* a repeat of the recorded tier inside the window was suppressed, with the
\* window's last second (3599 s after the alert) among the cases
C2_Witness ==
    /\ outcome["service"] = "suppressed"
    /\ outcome["loop"] = "none"
    /\ last_notification_type = "AMAZING"
    /\ now - last_notification_time = 3599

OtherTier ==
    /\ last_notification_type \in {"AMAZING", "EXCEPTIONAL"}
    /\ AlertFor(CurrentScore) \in {"AMAZING", "EXCEPTIONAL"}
    /\ AlertFor(CurrentScore) # last_notification_type

C4_NoDuplicateSendOnOverlap ==
    ~ /\ pc["loop"] = "send"
      /\ pc["service"] = "send"
      /\ AlertFor(frame["loop"].score) = AlertFor(frame["service"].score)

\* C9: an evaluation whose score is below 80 sends nothing and leaves
\* last_notification_type and last_notification_time alone, and the loop
\* enters check_and_notify only with last_score at least 80.
C9_BelowEightyNoEffect ==
    [][/\ \A p \in Procs :
            (CurrentScore < 80 /\ Evaluates(p))
               => (sends' = sends /\ pc'[p] = "idle" /\ NotificationStateUnchanged)
       /\ Evaluates("loop") => last_score' >= 80]_vars

\* an evaluation ran on a score below 80 after an alert had been recorded
C9_Witness ==
    /\ outcome["service"] = "nothing"
    /\ last_notification_type = "EXCEPTIONAL"
    /\ last_score \in 0..79

WindowOver ==
    /\ AlertFor(CurrentScore) \in {"AMAZING", "EXCEPTIONAL"}
    /\ \/ last_notification_time = NoTime
       \/ now - last_notification_time >= 3600

\* C10: with a notifiable score, an evaluation sends when last_notification_time
\* is unset or lies 3600 seconds or more back, whatever the recorded tier.
C10_WindowExpiresAt3600 ==
    [][\A p \in Procs :
         (WindowOver /\ Evaluates(p))
            => (sends' = sends + 1 /\ pc'[p] = "send")]_vars

\* the service alone is sending the recorded tier again, exactly 3600 s later
C10_Witness ==
    /\ pc["service"] = "send"
    /\ outcome["loop"] = "none"
    /\ last_notification_type = get_rating(frame["service"].score)
    /\ frame["service"].now - last_notification_time = 3600

-----------------------------------------------------------------------------
(* Properties of the scoring engine (specifications SpecScore, SpecRating) *)

\* the snapshot and the value calculate_score gave for it
Scored == call.fn \in {"calculate_score", "get_rating"} /\ weather.present

AllZeroOrMissing(a) ==
    /\ \A x \in {a.cloudless_percentage, a.transparency_percentage,
                 a.seeing_percentage, a.calm_percentage, a.moon_phase} :
          x \in {Num(0), Missing}
    /\ a.moon_icon = MissingStr

\* C5: calculate_score raises nothing and returns an integer of 0..100, for
\* every snapshot and all thresholds of 0..100; a snapshot whose fields are
\* all zero or all missing gets 0.
C5_ScoreAlwaysInRange ==
    Scored =>
        /\ call.exc = "none"
        /\ call.value \in 0..100
        /\ AllZeroOrMissing(weather.attributes) => call.value = 0

BelowGate(a) ==
    /\ a.cloudless_percentage.k \in {"num", "missing"}
    /\ a.cloudless_percentage.v < engine.min_cloudless

\* C6: a snapshot whose cloudless percentage is below min_cloudless gets
\* score 0 and rating "Poor", whatever its other fields hold.
C6_HardGate ==
    (Scored /\ BelowGate(weather.attributes)) =>
        /\ call.exc = "none"
        /\ call.value = 0
        /\ call.fn = "get_rating" => call.rating = "Poor"

\* a gated snapshot whose other fields are at their best has been scored and rated
C6_Witness ==
    /\ call.fn = "get_rating"
    /\ engine = DefaultEngine
    /\ weather.attributes =
         Attributes(Num(70), Num(100), Num(100), Num(100), Num(0), IconNew)

RatingRank(r) ==
    CASE r = "Poor" -> 0 [] r = "Good" -> 1 [] r = "AMAZING" -> 2
      [] r = "EXCEPTIONAL" -> 3 [] OTHER -> -1

\* C7: get_rating gives "Poor" for 0..59, "Good" for 60..79, "AMAZING" for
\* 80..89 and "EXCEPTIONAL" for 90..100, and never a lower rating for a
\* higher score.
C7_RatingBoundaries ==
    call.fn = "get_rating" =>
        /\ call.value \in 0..59   => call.rating = "Poor"
        /\ call.value \in 60..79  => call.rating = "Good"
        /\ call.value \in 80..89  => call.rating = "AMAZING"
        /\ call.value \in 90..100 => call.rating = "EXCEPTIONAL"
        /\ \A lower \in 0..call.value :
              RatingRank(get_rating(lower)) <= RatingRank(call.rating)

\* a score on a boundary has been rated
C7_Witness ==
    /\ call.fn = "get_rating"
    /\ call.value \in {59, 60, 79, 80, 89, 90}

MissingOrMalformed(a) ==
    \/ \E x \in {a.cloudless_percentage, a.transparency_percentage,
                 a.seeing_percentage, a.calm_percentage, a.moon_phase} :
          x.k # "num"
    \/ a.moon_icon.k # "str"

\* C8: a snapshot with a missing or malformed field gets the fallback score 0
\* and calculate_score raises nothing.
C8_ParseFailureGivesZero ==
    (Scored /\ MissingOrMalformed(weather.attributes)) =>
        (call.exc = "none" /\ call.value = 0)

-----------------------------------------------------------------------------
(* A scenario of the scoring engine (specification SpecScore)              *)

Scenario(cloudless) ==
    Attributes(Num(cloudless), Num(85), Num(75), Num(90), Num(0), IconNew)

\* C16: with thresholds 95/70/65 the snapshot cloudless 98, transparency 85,
\* seeing 75, calm 90, moon_phase 0, moon_icon "moon-new" gets score 54 and
\* rating "Poor"; the same snapshot with cloudless 70 gets 0 and "Poor".
C16_ConcreteScenario ==
    (engine = DefaultEngine /\ call.fn \in {"calculate_score", "get_rating"}) =>
        /\ weather.attributes = Scenario(98) =>
             /\ call.exc = "none"
             /\ call.value = 54
             /\ call.fn = "get_rating" => call.rating = "Poor"
        /\ weather.attributes = Scenario(70) =>
             /\ call.exc = "none"
             /\ call.value = 0
             /\ call.fn = "get_rating" => call.rating = "Poor"

C16_Witness ==
    /\ engine = DefaultEngine
    /\ weather.attributes = Scenario(98)
    /\ call.fn = "get_rating"
    /\ call.value = 54
    /\ call.rating = "Poor"

-----------------------------------------------------------------------------
(* update_stargazing_data and the rating sensor called directly            *)

\* an entity that lost its source has no attributes, or keeps its last ones
NoAttributes == Attributes(Missing, Missing, Missing, Missing, Missing, MissingStr)

EntityStates ==
    {NoState}
        \cup {State(a) : a \in AllAttributes}
        \cup { Entity(st, a) :
                 st \in {"unknown", "unavailable"},
                 a  \in {NoAttributes,
                         Attributes(Num(100), Num(100), Num(100), Num(100),
                                    Num(0), IconNew)} }

InitUpdate ==
    /\ engine \in Engines
    /\ weather \in EntityStates
    /\ now = 0
    /\ last_score = NoScore
    /\ last_notification_type = None
    /\ last_notification_time = NoTime
    /\ pc = [p \in Procs |-> "idle"]
    /\ frame = [p \in Procs |-> NoFrame]
    /\ outcome = [p \in Procs |-> "none"]
    /\ sends = 0
    /\ call = NoCall
    /\ CatalogIdle

CallUpdateStargazingData ==
    /\ LET data == update_stargazing_data(weather, engine, last_score)
       IN  /\ call' = [fn |-> "update_stargazing_data", exc |-> "none",
                       value |-> data.score, rating |-> data.rating]
           /\ last_score' = data.last_score
    /\ UNCHANGED <<engine, weather, now, last_notification_type,
                   last_notification_time, pc, frame, outcome, sends,
                   catalogVars>>

CallAsyncUpdate ==
    /\ call' = [fn |-> "async_update", exc |-> "none", value |-> 0,
                rating |-> async_update(weather, engine)]
    /\ UNCHANGED <<engine, weather, now, last_score, last_notification_type,
                   last_notification_time, pc, frame, outcome, sends,
                   catalogVars>>

NextUpdate == CallUpdateStargazingData \/ CallAsyncUpdate

SpecUpdate == InitUpdate /\ [][NextUpdate]_vars

DataUnavailable ==
    ~weather.present \/ weather.state \in {"unknown", "unavailable"}

\* C15: when the weather data source is missing or its state is unknown or
\* unavailable, update_stargazing_data raises nothing and returns score 0
\* with rating "Unknown".
C15_DataUnavailableIsUnknown ==
    (call.fn = "update_stargazing_data" /\ DataUnavailable) =>
        /\ call.exc = "none"
        /\ call.value = 0
        /\ call.rating = "Unknown"

-----------------------------------------------------------------------------
(* The services: check_conditions_now beside the test notification and the *)
(* poor-conditions message                                                 *)

\* handle_test_notification
TestNotification ==
    /\ \E ok \in BOOLEAN :
         LET r == send_test_notification(ok)
         IN  call' = [fn |-> "send_test_notification", exc |-> "none",
                      value |-> r.attempts, rating |-> None,
                      returned |-> r.returned, at |-> now]
    /\ UNCHANGED <<engine, weather, now, last_score, last_notification_type,
                   last_notification_time, pc, frame, outcome, sends,
                   catalogVars>>

\* a call of send_poor_conditions_info
PoorConditionsInfo ==
    /\ \E ok \in BOOLEAN :
         LET r == send_poor_conditions_info(ok)
         IN  call' = [fn |-> "send_poor_conditions_info", exc |-> "none",
                      value |-> r.attempts, rating |-> None,
                      returned |-> r.returned, at |-> now]
    /\ UNCHANGED <<engine, weather, now, last_score, last_notification_type,
                   last_notification_time, pc, frame, outcome, sends,
                   catalogVars>>

NextService ==
    \/ CheckNow
    \/ SendReturn("service")
    \/ SetWeather
    \/ Advance
    \/ TestNotification
    \/ PoorConditionsInfo

SpecService == Init /\ [][NextService]_vars

\* a step that is a call of one of the two senders
UntieredSend ==
    /\ call' # call
    /\ call'.fn \in {"send_test_notification", "send_poor_conditions_info"}

\* C18: send_test_notification and send_poor_conditions_info attempt a send
\* on every call, whatever last_notification_type and last_notification_time
\* hold, and neither call changes those two fields.
C18_NoDebounceState ==
    /\ [](ENABLED TestNotification /\ ENABLED PoorConditionsInfo)
    /\ [][UntieredSend =>
            /\ call'.value = 1
            /\ NotificationStateUnchanged]_vars

\* a test notification sent inside the window of a recorded tier alert
C18_Witness ==
    /\ call.fn = "send_test_notification"
    /\ call.value = 1
    /\ last_notification_type # None
    /\ last_notification_time # NoTime
    /\ call.at >= last_notification_time
    /\ call.at - last_notification_time < DebounceSeconds

-----------------------------------------------------------------------------
(* Two runs that differ only in minimum_score_notify, given the same       *)
(* snapshots at the same times                                             *)

\* values the configuration form accepts for minimum_score_notify (0..100)
MinScores == {0, 60, 80, 85, 100}

InitPair ==
    /\ engine = DefaultEngine
    /\ weather \in WeatherStates
    /\ now = 0
    /\ last_score = NoScore
    /\ last_notification_type = None
    /\ last_notification_time = NoTime
    /\ pc = [p \in Procs |-> "idle"]
    /\ frame = [p \in Procs |-> NoFrame]
    /\ outcome = [p \in Procs |-> "none"]
    /\ sends = 0
    /\ call = NoCall
    /\ fetcher = NewFetcher
    /\ wall = FirstClock
    /\ query = NoQuery
    /\ \E m1 \in MinScores, m2 \in MinScores :
         m1 < m2 /\ pair = <<NewData(m1), NewData(m2)>>
    /\ run = NoRun

\* check_conditions_now in both runs
PairCheckNow ==
    /\ pair' = [i \in 1..2 |-> Evaluation(pair[i], weather, engine, now)]
    /\ UNCHANGED <<fetcher, wall, query, run, policyVars>>

\* the update loop fires in both runs
PairLoopTick ==
    /\ pair' = [i \in 1..2 |-> LoopIteration(pair[i], weather, engine, now)]
    /\ UNCHANGED <<fetcher, wall, query, run, policyVars>>

NextPair ==
    \/ PairCheckNow
    \/ PairLoopTick
    \/ SetWeather
    \/ Advance

SpecPair == InitPair /\ [][NextPair]_vars

NotificationStateOf(d) ==
    <<d.last_notification_type, d.last_notification_time>>

-----------------------------------------------------------------------------
(* Further properties of the notification policy (specification Spec)      *)

\* one delivery call has been made so far, it failed, and no task is sending
OnlySendFailed ==
    /\ sends = 1
    /\ \E p \in Procs : outcome[p] = "failed"
    /\ \A p \in Procs : pc[p] = "idle"

\* C21: after an evaluation whose send failed, the next evaluation with a
\* notifiable tier, even less than 3600 seconds later, attempts the send
\* again instead of being suppressed.
C21_RetryAfterFailedSend ==
    [][\A p \in Procs :
         (OnlySendFailed /\ Evaluates(p) /\ AlertFor(CurrentScore) # None)
            => (outcome'[p] = "sending" /\ sends' = sends + 1)]_vars

\* C22: each check_and_notify evaluation makes at most one send call; with
\* score >= 90 it is the exceptional alert and never the amazing one, with
\* score 80..89 the amazing alert and never the exceptional one.
C22_OnlyHighestTierFires ==
    [][\A p \in Procs :
         /\ Evaluates(p) =>
              /\ sends' <= sends + 1
              /\ sends' = sends + 1 =>
                   (pc'[p] = "send" /\ frame'[p].score = CurrentScore
                      /\ CurrentScore >= 80)
         /\ (pc[p] = "send" /\ pc'[p] = "idle") =>
              last_notification_type' =
                 (IF frame[p].score >= 90 THEN "EXCEPTIONAL" ELSE "AMAZING")]_vars

\* both tiers have fired, the exceptional one last
C22_Witness ==
    /\ sends >= 2
    /\ \E p \in Procs : outcome[p] = "sent"
    /\ last_notification_type = "EXCEPTIONAL"
    /\ CurrentScore >= 90

\* C26: last_notification_type is None, "AMAZING" or "EXCEPTIONAL", and it is
\* None exactly when last_notification_time is None.
C26_NotificationStateWellFormed ==
    /\ last_notification_type \in {None, "AMAZING", "EXCEPTIONAL"}
    /\ last_notification_type = None <=> last_notification_time = NoTime

C26_Witness ==
    /\ last_notification_type = "AMAZING"
    /\ last_notification_time # NoTime
    /\ last_notification_time > 0

\* C27: with a non-decreasing clock, each write to last_notification_time
\* stores a value greater than or equal to the value it replaces, also when
\* evaluations overlap.
C27_NotificationTimeNeverBackwards ==
    [][last_notification_time # NoTime
         => last_notification_time' >= last_notification_time]_vars

\* the score the sensor and the loop's test read from last_score
LastScoreRead == IF last_score = NoScore THEN 0 ELSE last_score

\* C30: after every update_stargazing_data call last_score equals the score
\* that call returned, also when it returned 0 for an absent provider or a
\* snapshot that could not be read.
C30_LastScoreTracksLatest ==
    [][(CheckNow \/ LoopTick) => LastScoreRead' = CurrentScore]_vars

-----------------------------------------------------------------------------
(* Further properties of the scoring engine (specification SpecScore)      *)

\* the value float() gives for a field that is a number or absent
Value(x) == ParseFloat(x).v

\* a call of calculate_score that returned, on a snapshot past the hard gate
PastGate ==
    /\ Scored
    /\ call.exc = "none"
    /\ \A f \in {"cloudless_percentage", "transparency_percentage",
                 "seeing_percentage", "calm_percentage", "moon_phase"} :
         weather.attributes[f].k \in {"num", "missing"}
    /\ weather.attributes.moon_icon.k \in {"str", "missing"}
    /\ Value(weather.attributes.cloudless_percentage) >= engine.min_cloudless

IconText == Lower(weather.attributes.moon_icon.s)

\* the score of the same snapshot with a moon tag that names no phase and
\* moon_phase 0: the four contributions with nothing subtracted
ScoreWithoutMoon ==
    calculate_score(engine, [weather.attributes EXCEPT !.moon_icon = IconWaxing,
                                                       !.moon_phase = Num(0)]).value

\* the penalty in points; moon_phase is a multiple of 10 in every snapshot
PenaltyPoints ==
    IF Contains(StrNew, IconText) \/ Contains(StrNoMoon, IconText) THEN 0
    ELSE IF Contains(StrFull, IconText) THEN 10
    ELSE Value(weather.attributes.moon_phase) \div 10

\* C24: past the hard gate the moon penalty is 0 when moon_icon contains "new"
\* or "no-moon" in any letter case (even with "full" in the tag), otherwise 10
\* when it contains "full", otherwise moon_phase/100*10, and it is subtracted
\* from the sum of the four contributions before clamping.
C24_MoonPenaltyPrecedence ==
    PastGate => call.value = Max(0, ScoreWithoutMoon - PenaltyPoints)

\* a tag with both "new" and "full", in mixed case, at moon_phase 100
C24_Witness ==
    /\ PastGate
    /\ weather.attributes.moon_icon = IconNewFull
    /\ weather.attributes.moon_phase = Num(100)
    /\ call.value > 0
    /\ call.value = ScoreWithoutMoon

ThresholdsBelow100 ==
    /\ engine.min_cloudless < 100
    /\ engine.min_transparency < 100
    /\ engine.min_seeing < 100

\* every contribution of lines 66-95 is at its cap
AllAtCap ==
    LET a == weather.attributes
        c == Value(a.cloudless_percentage)
        t == Value(a.transparency_percentage)
        s == Value(a.seeing_percentage)
    IN  /\ (c - engine.min_cloudless) * 35 >= 30 * (100 - engine.min_cloudless)
        /\ t >= engine.min_transparency
        /\ (t - engine.min_transparency) * 28 >= 25 * (100 - engine.min_transparency)
        /\ s >= engine.min_seeing
        /\ (s - engine.min_seeing) * 22 >= 20 * (100 - engine.min_seeing)
        /\ Value(a.calm_percentage) = 100

RaisedValues == {0, 50, 65, 70, 75, 85, 100}

ScoreWith(field, v) ==
    calculate_score(engine, [weather.attributes EXCEPT ![field] = Num(v)])

\* C29: with the other fields and the thresholds fixed and the hard gate
\* passed, raising transparency_percentage or seeing_percentage within
\* [0,100] never lowers the score, also across min_transparency or min_seeing.
C29_MonotoneInTransparencyAndSeeing ==
    (PastGate /\ call.fn = "calculate_score") =>
        \A field \in {"transparency_percentage", "seeing_percentage"} :
            \A v \in RaisedValues :
                (v >= Value(weather.attributes[field])
                    /\ ScoreWith(field, v).exc = "none")
                   => ScoreWith(field, v).value >= call.value

-----------------------------------------------------------------------------
(* One run of the policy, each evaluation taken from entry to return, with *)
(* the record of what it delivered                                         *)

Levels == {"AMAZING", "EXCEPTIONAL"}

\* data: the StargazingData object; sent: when each level was last delivered;
\* ticks, checks: the parity of the loop iterations and of the service calls;
\* failed: the latest loop iteration met a failure; seen: the state it read
NewRun ==
    [data      |-> NewData(80),
     sent      |-> [l \in Levels |-> NoTime],
     delivered |-> None,
     ticks     |-> 0,
     checks    |-> 0,
     failed    |-> FALSE,
     seen      |-> NoState]

\* the delivery record after an evaluation that left the object d
Delivered(d, ok) == IF ok THEN d.alert ELSE None

SentAfter(sent, d, ok, t) ==
    [l \in Levels |-> IF Delivered(d, ok) = l THEN t ELSE sent[l]]

\* what makes an iteration a failed one: no provider, a snapshot that cannot
\* be read, or a delivery call that raised
TickFailed(first, d, ok) ==
    \/ first.rating \in {"Unknown", "Error"}
    \/ d.alert # None /\ ~ok

InitRun ==
    /\ engine = DefaultEngine
    /\ weather \in WeatherStates
    /\ now = 0
    /\ last_score = NoScore
    /\ last_notification_type = None
    /\ last_notification_time = NoTime
    /\ pc = [p \in Procs |-> "idle"]
    /\ frame = [p \in Procs |-> NoFrame]
    /\ outcome = [p \in Procs |-> "none"]
    /\ sends = 0
    /\ call = NoCall
    /\ fetcher = NewFetcher
    /\ wall = FirstClock
    /\ query = NoQuery
    /\ pair = NoPair
    /\ run = NewRun

\* the run after an iteration that read the snapshots first and second and
\* whose delivery call, if any, returned (ok) or raised
RunAfterTick(first, second, ok) ==
    LET d == LoopIterationOf(run.data, first, second, now)
    IN  [run EXCEPT !.data = d,
                    !.sent = SentAfter(@, d, ok, now),
                    !.delivered = Delivered(d, ok),
                    !.ticks = 1 - @,
                    !.failed = TickFailed(first, d, ok),
                    !.seen = weather]

RunLoopTickStopping ==
    /\ ~run.failed
    /\ \E first \in {update_stargazing_data(weather, engine, run.data.last_score)} :
       \E second \in {update_stargazing_data(weather, engine, first.last_score)} :
       \E ok \in BOOLEAN :
          run' = RunAfterTick(first, second, ok)
    /\ UNCHANGED <<fetcher, wall, query, pair, policyVars>>

\* one iteration of _setup_update_loop: the try body or the except clause,
\* then the sleep; each of the two snapshots is read once
RunLoopTick ==
    /\ \E first \in {update_stargazing_data(weather, engine, run.data.last_score)} :
       \E second \in {update_stargazing_data(weather, engine, first.last_score)} :
       \E ok \in BOOLEAN :
          run' = RunAfterTick(first, second, ok)
    /\ UNCHANGED <<fetcher, wall, query, pair, policyVars>>

\* handle_check_now
RunCheckNow ==
    /\ \E ok \in BOOLEAN :
         LET d == Evaluation(run.data, weather, engine, now)
         IN  run' = [run EXCEPT !.data = d,
                                !.sent = SentAfter(@, d, ok, now),
                                !.delivered = Delivered(d, ok),
                                !.checks = 1 - @]
    /\ UNCHANGED <<fetcher, wall, query, pair, policyVars>>

\* the service called again and again
NextRun ==
    \/ RunCheckNow
    \/ SetWeather
    \/ Advance

SpecRun == InitRun /\ [][NextRun]_vars

\* the update loop alone, within one hour of its start: the provider's state
\* changes between the iterations
NextLoop ==
    \/ RunLoopTick
    \/ SetWeather

\* asyncio runs the loop task again after each sleep
LiveRun == InitRun /\ [][NextLoop]_vars /\ WF_vars(RunLoopTick)

\* a step whose evaluation delivers an alert of level l
Delivers(l) == run' # run /\ run'.delivered = l

\* C23: over any sequence of check_and_notify evaluations, also when the score
\* moves between the AMAZING and EXCEPTIONAL levels and back, no two alerts of
\* the same level are sent less than 3600 seconds apart.
C23_OncePerLevelPerHour ==
    [][\A l \in Levels :
         Delivers(l) =>
            (run.sent[l] = NoTime \/ now - run.sent[l] >= DebounceSeconds)]_vars

\* C25: when update_stargazing_data or check_and_notify fails during one
\* iteration of the update loop, the loop does not end: another iteration
\* eventually runs and evaluates the snapshot current at that time.
C25_FailedTickNeverStopsLoop ==
    \A b \in {0, 1} :
        (run.failed /\ run.ticks = b) ~> (run.ticks # b /\ run.seen = weather)

\* an iteration that ran after a failed one and failed again on a state
\* other than the one the run started with
C25_Witness ==
    /\ run.failed
    /\ run.ticks = 0
    /\ run.seen = weather
    /\ run.seen = NoState
    /\ run.data.last_score # NoScore

=============================================================================
